---- MODULE Spec2Model ----
(***************************************************************************)
(* removeDuplicates, in its two source variants:                           *)
(*   "scan": src/unnamed/part_000   for..of + resultArray.includes + push  *)
(*   "set" : src/src/problem-2.ts   numbers.filter with a Set uniqueNumber *)
(* Each caller owns an input array object (numbers); a call creates a new  *)
(* array object (resultArray; in the "set" variant the array that filter   *)
(* builds) and, in the "set" variant, a new Set (uniqueNumber).  One       *)
(* action is one loop iteration.  The numbers of the model are the         *)
(* naturals, -0 and NaN, so that the equality the membership tests use     *)
(* (SameValueZero) differs from identity; inputs are dense arrays.         *)
(***************************************************************************)
EXTENDS Integers, Sequences, FiniteSets

\* ---------------------------------------------------------------- bounds
\* longest generated input and largest generated value, one caller
MaxLen ==
    3
MaxVal ==
    2
\* the same for two callers whose calls interleave
MaxPairLen ==
    2
MaxPairVal ==
    2

Callers == {1, 2}
Main == {1}
Variants == {"scan", "set"}

SeqsUpTo(S, n) == UNION {[1..k -> S] : k \in 0..n}

\* number values the integers lack, as two codes outside the naturals
NegZero ==
    -1
NaN ==
    -2

\* the numbers inputs are built from: 0 (that is +0), 1, ..., -0, NaN
Values == (0..MaxVal) \cup {NegZero, NaN}

\* the literal the program prints the deduplication of
Literal == <<1, 1, 2, 2, 3, 3, 4, 4, 4, 4, 5, 5, 8, 8, 6, 6, 7, 7>>

Inputs == SeqsUpTo(Values, MaxLen) \cup {Literal}
PairInputs == SeqsUpTo(1..MaxPairVal, MaxPairLen)

VARIABLES
    pc,            \* caller -> "idle" | "loop" | "done"
    variant,       \* caller -> which source variant the call runs
    numbers,       \* caller -> contents of the input array object
    i,             \* caller -> 0-based index of the next position to examine
    resultArray,   \* caller -> contents of the array object the call created
    uniqueNumber,  \* caller -> the Set of the "set" variant
    returned,      \* caller -> which object the call returned a reference to
    input0,        \* history: contents of numbers when the call was made
    out0,          \* history: contents of the returned array at the return
    trace,         \* history: positions examined by the call, with the outcome
    mode,          \* history: what the call was made on: "fresh" | "same" | "result"
    prev,          \* history: variant, input and result of the caller's previous call
    wrote          \* history: the caller's write after the return: "none" | "input" | "result"

vars == <<pc, variant, numbers, i, resultArray, uniqueNumber, returned,
          input0, out0, trace, mode, prev, wrote>>

NoPrev == [variant |-> "none", input |-> <<>>, out |-> <<>>]

\* ------------------------------------------------- language primitives
\* Array.prototype.includes and Set.prototype.has compare by SameValueZero:
\* NaN is the same as NaN, and +0 the same as -0
SameValueZero(x, y) == x = y \/ {x, y} = {0, NegZero}

\* what `indexOf(x) !== -1` would test: ===, under which NaN equals nothing
StrictlyEqual(x, y) == x # NaN /\ y # NaN /\ SameValueZero(x, y)

IncludesLastOnly(arr, x) == Len(arr) > 0 /\ SameValueZero(arr[Len(arr)], x)
IndexOfFound(arr, x) == \E k \in 1..Len(arr) : StrictlyEqual(arr[k], x)
Includes(arr, x) == \E k \in 1..Len(arr) : SameValueZero(arr[k], x)

PushFront(arr, x) == <<x>> \o arr
PushSorted(arr, x) ==
    LET lo == SelectSeq(arr, LAMBDA y : y <= x)
        hi == SelectSeq(arr, LAMBDA y : y > x)
    IN  lo \o <<x>> \o hi
Push(arr, x) == Append(arr, x)

SetHasAny(S, x) == S # {}
SetHas(S, x) == \E y \in S : SameValueZero(y, x)

\* Set.prototype.add stores -0 as +0
SetAddNothing(S, x) == S
SetAdd(S, x) == S \cup {IF x = NegZero THEN 0 ELSE x}

\* `const uniqueNumber = new Set()` inside the function: whatever Set an
\* earlier invocation left behind (old) is not consulted
NewSetModuleLevel(old) == old
NewSet(old) == {}

\* `const resultArray: number[] = []`, and the array filter creates
NewArray(old) == <<>>

\* the loop moves to the next position
AdvanceTwo(k) == k + 2
Advance(k) == k + 1

\* the reference handed back: the array the call created
ReturnInputWhenNothingDropped(nums, res) ==
    IF nums = res THEN "numbers" ELSE "resultArray"
ReturnRef(nums, res) == "resultArray"

\* the array the caller holds after the return
Returned(c) == IF returned[c] = "numbers" THEN numbers[c] ELSE resultArray[c]

\* ------------------------------------------------------------- Init
Init ==
    /\ pc = [c \in Callers |-> "idle"]
    /\ variant = [c \in Callers |-> "scan"]
    /\ numbers = [c \in Callers |-> <<>>]
    /\ i = [c \in Callers |-> 0]
    /\ resultArray = [c \in Callers |-> <<>>]
    /\ uniqueNumber = [c \in Callers |-> {}]
    /\ returned = [c \in Callers |-> "resultArray"]
    /\ input0 = [c \in Callers |-> <<>>]
    /\ out0 = [c \in Callers |-> <<>>]
    /\ trace = [c \in Callers |-> <<>>]
    /\ mode = [c \in Callers |-> "fresh"]
    /\ prev = [c \in Callers |-> NoPrev]
    /\ wrote = [c \in Callers |-> "none"]

\* ------------------------------------------------------------- actions
\* function entry: the parameter is bound, the locals are created
Enter(c, v, xs, m, p) ==
    /\ pc' = [pc EXCEPT ![c] = "loop"]
    /\ variant' = [variant EXCEPT ![c] = v]
    /\ numbers' = [numbers EXCEPT ![c] = xs]
    /\ i' = [i EXCEPT ![c] = 0]
    /\ resultArray' = [resultArray EXCEPT ![c] = NewArray(resultArray[c])]
    /\ uniqueNumber' = [uniqueNumber EXCEPT
                          ![c] = IF v = "set" THEN NewSet(uniqueNumber[c]) ELSE {}]
    /\ returned' = [returned EXCEPT ![c] = "resultArray"]
    /\ input0' = [input0 EXCEPT ![c] = xs]
    /\ out0' = [out0 EXCEPT ![c] = <<>>]
    /\ trace' = [trace EXCEPT ![c] = <<>>]
    /\ mode' = [mode EXCEPT ![c] = m]
    /\ prev' = [prev EXCEPT ![c] = p]
    /\ wrote' = [wrote EXCEPT ![c] = "none"]

\* removeDuplicates(xs) on an array xs of S that the caller has just built (a
\* later call on another new array starts from the same state, so only the
\* first is drawn)
Call(c, S) ==
    /\ pc[c] = "idle"
    /\ \E v \in Variants, xs \in S : Enter(c, v, xs, "fresh", NoPrev)

\* removeDuplicates(numbers) once more on the same, untouched input array
CallSame(c, v) ==
    /\ pc[c] = "done"
    /\ wrote[c] = "none"
    /\ Enter(c, v, numbers[c], "same", [variant |-> variant[c], input |-> input0[c], out |-> out0[c]])

\* removeDuplicates(removeDuplicates(xs)): the returned array is the next input
CallOnResult(c, v) ==
    /\ pc[c] = "done"
    /\ wrote[c] = "none"
    /\ Enter(c, v, Returned(c), "result", [variant |-> variant[c], input |-> input0[c], out |-> out0[c]])

\* one iteration of `for (const num of numbers)`
StepScan(c) ==
    /\ pc[c] = "loop"
    /\ variant[c] = "scan"
    /\ i[c] < Len(numbers[c])
    /\ LET num == numbers[c][i[c] + 1]
           keep == ~Includes(resultArray[c], num)
       IN  /\ resultArray' = [resultArray EXCEPT
                                ![c] = IF keep THEN Push(@, num) ELSE @]
           /\ trace' = [trace EXCEPT
                          ![c] = Append(@, [index |-> i[c], kept |-> keep])]
    /\ i' = [i EXCEPT ![c] = Advance(@)]
    /\ UNCHANGED <<pc, variant, numbers, uniqueNumber, returned, input0, out0,
                   mode, prev, wrote>>

\* one iteration of `numbers.filter(n => ...)`: the callback, then filter's append
StepSet(c) ==
    /\ pc[c] = "loop"
    /\ variant[c] = "set"
    /\ i[c] < Len(numbers[c])
    /\ LET n == numbers[c][i[c] + 1]
           keep == ~SetHas(uniqueNumber[c], n)
       IN  /\ uniqueNumber' = [uniqueNumber EXCEPT
                                 ![c] = IF keep THEN SetAdd(@, n) ELSE @]
           /\ resultArray' = [resultArray EXCEPT
                                ![c] = IF keep THEN Push(@, n) ELSE @]
           /\ trace' = [trace EXCEPT
                          ![c] = Append(@, [index |-> i[c], kept |-> keep])]
    /\ i' = [i EXCEPT ![c] = Advance(@)]
    /\ UNCHANGED <<pc, variant, numbers, returned, input0, out0, mode, prev, wrote>>

\* the loop is exhausted: `return resultArray` / filter returns its array
Return(c) ==
    /\ pc[c] = "loop"
    /\ i[c] >= Len(numbers[c])
    /\ pc' = [pc EXCEPT ![c] = "done"]
    /\ LET ref == ReturnRef(numbers[c], resultArray[c])
       IN  /\ returned' = [returned EXCEPT ![c] = ref]
           /\ out0' = [out0 EXCEPT
                         ![c] = IF ref = "numbers" THEN numbers[c] ELSE resultArray[c]]
    /\ UNCHANGED <<variant, numbers, i, resultArray, uniqueNumber, input0,
                   trace, mode, prev, wrote>>

\* after the return the caller pushes a value through one of the two
\* references it holds: its input array, or the array it was handed back
CallerWrite(c, ref, x) ==
    /\ pc[c] = "done"
    /\ wrote[c] = "none"
    /\ LET obj == IF ref = "input" THEN "numbers" ELSE returned[c]
       IN  /\ numbers' = [numbers EXCEPT
                            ![c] = IF obj = "numbers" THEN Append(@, x) ELSE @]
           /\ resultArray' = [resultArray EXCEPT
                                ![c] = IF obj = "resultArray" THEN Append(@, x) ELSE @]
    /\ wrote' = [wrote EXCEPT ![c] = ref]
    /\ UNCHANGED <<pc, variant, i, uniqueNumber, returned, input0, out0,
                   trace, mode, prev>>

\* ------------------------------------------------------ specifications
\* one caller, calls one after another
Next ==
    \E c \in Main :
        \/ Call(c, Inputs)
        \/ \E v \in Variants : CallSame(c, v)
        \/ \E v \in Variants : CallOnResult(c, v)
        \/ StepScan(c)
        \/ StepSet(c)
        \/ Return(c)
        \/ \E ref \in {"input", "result"}, x \in Values : CallerWrite(c, ref, x)

Spec == Init /\ [][Next]_vars

\* a call that has started runs its loop to the end
FairSpec ==
    Spec /\ \A c \in Main : WF_vars(StepScan(c) \/ StepSet(c) \/ Return(c))

\* two callers whose calls interleave iteration by iteration
NextPair ==
    \E c \in Callers :
        \/ Call(c, PairInputs)
        \/ \E v \in Variants : CallSame(c, v)
        \/ StepScan(c)
        \/ StepSet(c)
        \/ Return(c)

PairSpec == Init /\ [][NextPair]_vars

\* ------------------------------------------------ vocabulary of the claims
\* x and y are the same number value: +0 and -0 are one value, NaN is one value
Same(x, y) == x = y \/ (x \in {0, NegZero} /\ y \in {0, NegZero})
InSeq(s, x) == \E k \in 1..Len(s) : Same(s[k], x)
NoDup(s) == \A j, k \in 1..Len(s) : j # k => ~Same(s[j], s[k])
Count(s, x) == Cardinality({k \in 1..Len(s) : Same(s[k], x)})
FirstIndex(s, x) ==
    CHOOSE k \in 1..Len(s) : Same(s[k], x) /\ \A j \in 1..(k - 1) : ~Same(s[j], x)
IsPrefix(s, t) == Len(s) <= Len(t) /\ \A k \in 1..Len(s) : s[k] = t[k]
Done(c) == pc[c] = "done"
Started(c) == pc[c] \in {"loop", "done"}
\* the output as the call built it: frozen at the return
OutSoFar(c) == IF Done(c) THEN out0[c] ELSE resultArray[c]

\* the first occurrences of xs, in order (the deduplication of section 3)
FirstOcc(xs) ==
    LET F[k \in 0..Len(xs)] ==
            IF k = 0 THEN <<>>
            ELSE IF \A j \in 1..(k - 1) : ~Same(xs[j], xs[k])
                 THEN Append(F[k - 1], xs[k])
                 ELSE F[k - 1]
    IN  F[Len(xs)]

\* C1: the result of a call has no value twice, every element of it occurs in
\* the input, and every distinct value of the input occurs in it exactly once
\* (either variant, the empty input included).
C1_SetEquality ==
    \A c \in Callers :
        Done(c) =>
            /\ NoDup(out0[c])
            /\ \A k \in 1..Len(out0[c]) : InSeq(input0[c], out0[c][k])
            /\ \A k \in 1..Len(input0[c]) : Count(out0[c], input0[c][k]) = 1

\* both variants have returned on one input that repeats a value
C1_Witness ==
    \E c \in Callers :
        /\ Done(c) /\ mode[c] = "same"
        /\ variant[c] = "set" /\ prev[c].variant = "scan"
        /\ Len(out0[c]) >= 2 /\ Len(out0[c]) < Len(input0[c])

\* C2: the result is a subsequence of the input made of first occurrences: it
\* is no longer than the input, each element is an input value, and a precedes
\* b in the result exactly when a's first occurrence in the input precedes b's.
C2_FirstOccurrenceOrder ==
    \A c \in Callers :
        Done(c) =>
            LET xs == input0[c]
                out == out0[c]
            IN  /\ Len(out) <= Len(xs)
                /\ \A k \in 1..Len(out) : InSeq(xs, out[k])
                /\ \A j, k \in 1..Len(out) :
                       (j < k) <=> (FirstIndex(xs, out[j]) < FirstIndex(xs, out[k]))

\* a value repeats after another value came in between, and two values are kept
C2_Witness ==
    \E c \in Callers :
        /\ Done(c)
        /\ Len(out0[c]) >= 2
        /\ \E j, k \in 1..Len(input0[c]) :
               /\ j + 1 < k
               /\ Same(input0[c][j], input0[c][k])
               /\ ~Same(input0[c][j + 1], input0[c][j])

\* C3: removeDuplicates(removeDuplicates(xs)) = removeDuplicates(xs): a call on
\* the array an earlier call returned returns an equal array.
C3_Idempotent ==
    \A c \in Callers :
        (Done(c) /\ mode[c] = "result") =>
            /\ input0[c] = prev[c].out
            /\ out0[c] = prev[c].out

\* the second call of a chain has returned, the first one having dropped a value
C3_Witness ==
    \E c \in Callers :
        /\ Done(c) /\ mode[c] = "result"
        /\ Len(prev[c].out) < Len(prev[c].input)
        /\ Len(out0[c]) >= 2

\* C4: on an input without a repeated value the result equals the input; the
\* empty input gives the empty result.
C4_NoDuplicatesIdentity ==
    \A c \in Callers :
        /\ (Done(c) /\ NoDup(input0[c])) => out0[c] = input0[c]
        /\ (Done(c) /\ input0[c] = <<>>) => out0[c] = <<>>

\* a call on a fresh input of three different values has returned
C4_Witness ==
    \E c \in Callers :
        /\ Done(c) /\ mode[c] = "fresh"
        /\ Len(input0[c]) >= 3 /\ NoDup(input0[c])

\* C5: a call leaves its input array as it was and returns the array it
\* created, never the input array: the input changes only by the caller's own
\* write to it, a write through the returned reference leaves the input
\* alone, and a write to the input leaves the returned array alone.
C5_InputUntouchedResultFresh ==
    \A c \in Callers :
        /\ wrote[c] # "input" => numbers[c] = input0[c]
        /\ Done(c) => returned[c] = "resultArray"
        /\ (Done(c) /\ wrote[c] # "result") => Returned(c) = out0[c]
        /\ (Done(c) /\ wrote[c] = "result") =>
               /\ Len(Returned(c)) = Len(out0[c]) + 1
               /\ IsPrefix(out0[c], Returned(c))
        /\ (Done(c) /\ wrote[c] = "input") =>
               /\ Len(numbers[c]) = Len(input0[c]) + 1
               /\ IsPrefix(input0[c], numbers[c])

\* the caller has pushed onto the array returned for an input without duplicates
C5_Witness ==
    \E c \in Callers :
        /\ Done(c) /\ wrote[c] = "result"
        /\ Len(input0[c]) >= 2 /\ NoDup(input0[c])

\* C6: the two variants return the same sequence: a call of one variant on the
\* input an earlier call of the other variant was made on returns an equal array.
C6_VariantsAgree ==
    \A c \in Callers :
        (Done(c) /\ mode[c] = "same" /\ prev[c].variant # variant[c]) =>
            /\ input0[c] = prev[c].input
            /\ out0[c] = prev[c].out

\* the Set variant has returned after the scan variant, on an input that holds
\* NaN and repeats a value
C6_Witness ==
    \E c \in Callers :
        /\ Done(c) /\ mode[c] = "same"
        /\ prev[c].variant = "scan" /\ variant[c] = "set"
        /\ Len(out0[c]) >= 2
        /\ NaN \in {input0[c][k] : k \in 1..Len(input0[c])}
        /\ Len(out0[c]) < Len(input0[c])

\* C7: calls share nothing: a call starts with an empty result and an empty
\* seen-set whatever came before, two calls on equal inputs return equal
\* arrays however their iterations interleave, and a value of a call's input
\* is never missing from its result.
C7_CallsIndependent ==
    /\ \A c \in Callers :
           (pc[c] = "loop" /\ i[c] = 0) =>
               resultArray[c] = <<>> /\ uniqueNumber[c] = {}
    /\ \A c \in Callers :
           Done(c) => \A k \in 1..Len(input0[c]) : InSeq(out0[c], input0[c][k])
    /\ \A c, d \in Callers :
           (Done(c) /\ Done(d) /\ input0[c] = input0[d]) => out0[c] = out0[d]
    /\ \A c \in Callers :
           Started(c) => OutSoFar(c) = FirstOcc(SubSeq(input0[c], 1, i[c]))

\* one caller's second call has returned while the other caller's call is in
\* mid-loop and has already seen a value the first one saw
C7_Witness ==
    \E c, d \in Callers :
        /\ c # d
        /\ Done(c) /\ mode[c] = "same" /\ variant[c] = "set"
        /\ pc[d] = "loop" /\ variant[d] = "set"
        /\ 0 < i[d] /\ i[d] < Len(input0[d])
        /\ uniqueNumber[c] \cap uniqueNumber[d] # {}

\* C8: on the literal the program prints, the result is [1,2,3,4,5,8,6,7]:
\* 8, 6, 7 stay in input order.
C8_PrintedLiteral ==
    \A c \in Callers :
        (Done(c) /\ input0[c] = Literal) => out0[c] = <<1, 2, 3, 4, 5, 8, 6, 7>>

\* the printed call (the scan variant on the literal) has returned
C8_Witness ==
    \E c \in Callers :
        Done(c) /\ input0[c] = Literal /\ variant[c] = "scan" /\ mode[c] = "fresh"

\* C9: a call examines the positions 0, 1, ..., n-1 of its input once each and
\* in that order, each position is kept (appended) or skipped, and the call
\* returns after position n-1.
C9_PassShape ==
    \A c \in Callers :
        Started(c) =>
            /\ Len(trace[c]) = i[c]
            /\ i[c] <= Len(input0[c])
            /\ \A k \in 1..Len(trace[c]) : trace[c][k].index = k - 1
            /\ Cardinality({k \in 1..Len(trace[c]) : trace[c][k].kept})
                   = Len(OutSoFar(c))
            /\ Done(c) => i[c] = Len(input0[c])

C9_OnePassTerminates ==
    /\ []C9_PassShape
    /\ \A c \in Callers : (pc[c] = "loop") ~> (pc[c] = "done")

\* a call has returned after a pass that kept some positions and skipped others
C9_Witness ==
    \E c \in Callers :
        /\ Done(c)
        /\ Len(trace[c]) >= 3
        /\ \E j, k \in 1..Len(trace[c]) : trace[c][j].kept /\ ~trace[c][k].kept

\* C10: after k positions the output has no duplicates and is the
\* deduplication of the first k input elements, in the Set variant
\* uniqueNumber holds exactly the values kept so far, and an iteration only
\* ever extends the output at its end.
C10_PrefixShape ==
    \A c \in Callers :
        Started(c) =>
            /\ NoDup(OutSoFar(c))
            /\ OutSoFar(c) = FirstOcc(SubSeq(input0[c], 1, i[c]))
            /\ variant[c] = "set" =>
                   /\ \A y \in uniqueNumber[c] : InSeq(OutSoFar(c), y)
                   /\ \A k \in 1..Len(OutSoFar(c)) :
                          \E y \in uniqueNumber[c] : Same(y, OutSoFar(c)[k])
                   /\ Cardinality(uniqueNumber[c]) = Len(OutSoFar(c))

C10_OutputGrows ==
    \A c \in Callers :
        (pc[c] = "loop" /\ pc'[c] = "loop") =>
            /\ IsPrefix(resultArray[c], resultArray'[c])
            /\ Len(resultArray'[c]) <= Len(resultArray[c]) + 1

C10_LoopInvariant ==
    /\ []C10_PrefixShape
    /\ [][C10_OutputGrows]_vars

\* the Set variant is in its loop, has kept two values, -0 among them, and
\* skipped one
C10_Witness ==
    \E c \in Callers :
        /\ pc[c] = "loop" /\ variant[c] = "set"
        /\ Len(resultArray[c]) >= 2 /\ Len(resultArray[c]) < i[c]
        /\ NegZero \in {resultArray[c][k] : k \in 1..Len(resultArray[c])}

====
